---- MODULE Spec2Model ----
(***************************************************************************)
(* Model of the query-decomposition pipeline of MultiModel_RAG:            *)
(* QueryDecomposer (decompose_query, rerank_chunks, combine_answers),      *)
(* VectorStore (build_index, search) and PDFProcessor.query_complex.       *)
(*                                                                         *)
(* A Python string is a sequence of atoms (TLA+ strings); concatenation is *)
(* \o, the empty string is << >>.  A JSON value is a record [kind, val].   *)
(***************************************************************************)
EXTENDS Integers, Sequences, FiniteSets, TLC

\* ------------------------------------------------------------------ bounds
\* longest decomposition-generator response, in atoms
MaxRespLen == 5
\* longest chunk list handed to build_index
MaxBuild == 2
\* similarity scores are 1..MaxScore (scaled cosine similarities)
MaxScore == 1
\* most freely chosen chunks in a collection handed to rerank_chunks
MaxFree == 3

\* ------------------------------------------------------- program constants
TOP_K_RETRIEVAL == 5
RERANK_CAP == 8

\* ------------------------------------------------------------ text helpers
SetMin(S) == CHOOSE m \in S : \A n \in S : m <= n
SetMax(S) == CHOOSE m \in S : \A n \in S : m >= n

IsWs(t) == t \in {" ", "\n"}

\* str.strip(): drop leading and trailing whitespace atoms
strip(s) ==
  LET keep == {k \in 1..Len(s) : ~IsWs(s[k])}
  IN  IF keep = {} THEN << >> ELSE SubSeq(s, SetMin(keep), SetMax(keep))

\* s contains t as a contiguous substring starting at position p
OccursAt(s, t, p) ==
  /\ p >= 1
  /\ p + Len(t) - 1 <= Len(s)
  /\ \A k \in 1..Len(t) : s[p + k - 1] = t[k]

RECURSIVE Concat(_)
Concat(ss) == IF ss = << >> THEN << >> ELSE Head(ss) \o Concat(Tail(ss))

\* ------------------------------------------------------------- JSON values
StrTokens == {"\"A\"", "\"B\""}
NumTokens == {"1"}
RespAlphabet == {"[", "]", ",", " ", "x"} \cup StrTokens \cup NumTokens

\* the characters between the quotes of a JSON string literal
StrContent(tok) == IF tok = "\"A\"" THEN <<"A">> ELSE <<"B">>

JStr(text) == [kind |-> "str", val |-> text]
JNum(digits) == [kind |-> "num", val |-> digits]
JList(toks) == [kind |-> "list", val |-> toks]

SkipWs(s) ==
  LET keep == {k \in 1..Len(s) : ~IsWs(s[k])}
  IN  IF keep = {} THEN << >> ELSE SubSeq(s, SetMin(keep), Len(s))

ParseFail == [ok |-> FALSE, v |-> JList(<< >>), items |-> << >>, rest |-> << >>]

\* json.loads: recursive descent over the atoms; ParseValue parses one value
\* at the head of s, ParseElems the elements of an array after its "[".
RECURSIVE ParseValue(_), ParseElems(_, _)
ParseValue(s0) ==
  LET s == SkipWs(s0)
  IN  IF s = << >> THEN ParseFail
      ELSE IF Head(s) \in StrTokens
        THEN [ok |-> TRUE, v |-> JStr(StrContent(Head(s))), items |-> << >>, rest |-> Tail(s)]
      ELSE IF Head(s) \in NumTokens
        THEN LET stop == {k \in 1..Len(s) : s[k] \notin NumTokens}
                 n == IF stop = {} THEN Len(s) ELSE SetMin(stop) - 1
             IN  [ok |-> TRUE, v |-> JNum(SubSeq(s, 1, n)), items |-> << >>,
                  rest |-> SubSeq(s, n + 1, Len(s))]
      ELSE IF Head(s) = "["
        THEN LET body == SkipWs(Tail(s))
                 r == IF body # << >> /\ Head(body) = "]"
                        THEN [ok |-> TRUE, v |-> JList(<< >>), items |-> << >>, rest |-> Tail(body)]
                        ELSE ParseElems(body, << >>)
             IN  IF r.ok
                   THEN [ok |-> TRUE,
                         v |-> JList(SubSeq(s, 1, Len(s) - Len(r.rest))),
                         items |-> r.items,
                         rest |-> r.rest]
                   ELSE ParseFail
      ELSE ParseFail

ParseElems(s, acc) ==
  LET e == ParseValue(s)
      after == SkipWs(e.rest)
  IN  IF ~e.ok \/ after = << >> THEN ParseFail
      ELSE IF Head(after) = ","
        THEN ParseElems(Tail(after), Append(acc, e.v))
      ELSE IF Head(after) = "]"
        THEN [ok |-> TRUE, v |-> JList(<< >>), items |-> Append(acc, e.v), rest |-> Tail(after)]
      ELSE ParseFail

\* json.loads(text): one value, then nothing but whitespace
json_loads(text) ==
  LET r == ParseValue(text)
  IN  IF r.ok /\ SkipWs(r.rest) = << >> THEN r ELSE ParseFail

\* re.search(r'\[.*\]', text, re.DOTALL): leftmost "[", greedy to the last "]"
re_search(text) ==
  LET opens == {k \in 1..Len(text) : text[k] = "["}
      closes == {k \in 1..Len(text) : text[k] = "]"}
  IN  IF opens # {} /\ \E c \in closes : c > SetMin(opens)
        THEN [found |-> TRUE, group |-> SubSeq(text, SetMin(opens), SetMax(closes))]
        ELSE [found |-> FALSE, group |-> << >>]

\* ------------------------------------------------------- decompose_query
\* outcome of model.generate_content: it raises, or response.text is .text
GenRaise == [raises |-> TRUE, text |-> << >>]
GenText(t) == [raises |-> FALSE, text |-> t]

\* decompose_query returning the parsed text unchecked: no fallback when the
\* response holds no list literal
decompose_query_nofallback(query, outcome) ==
  IF outcome.raises THEN <<JStr(query)>>
  ELSE LET response_text == strip(outcome.text)
           json_match == re_search(response_text)
       IN  IF json_match.found
             THEN LET parsed == json_loads(json_match.group)
                  IN  IF parsed.ok THEN parsed.items ELSE <<JStr(query)>>
             ELSE << >>

decompose_query(query, outcome) ==
  IF outcome.raises THEN <<JStr(query)>>
  ELSE LET response_text == strip(outcome.text)
           json_match == re_search(response_text)
       IN  IF json_match.found
             THEN LET parsed == json_loads(json_match.group)
                  IN  IF parsed.ok THEN parsed.items ELSE <<JStr(query)>>
             ELSE <<JStr(query)>>

\* ------------------------------------------------------------------ chunks
\* A chunk dict: similarity_score is present only when has_score is TRUE.
Chunk(content, type, image_path) ==
  [content |-> content, type |-> type, image_path |-> image_path,
   has_score |-> FALSE, similarity_score |-> 0]

\* chunks that extraction can hand to build_index
ChunkPool ==
  { Chunk(<<"c1">>, "text", << >>),
    Chunk(<<"c2">>, "image", <<"p1.png">>),
    Chunk(<<" ">>, "text", << >>) }

RECURSIVE SeqsUpTo(_, _)
SeqsUpTo(S, n) ==
  IF n = 0 THEN {<< >>}
  ELSE LET shorter == SeqsUpTo(S, n - 1)
       IN  shorter \cup {Append(q, e) : q \in {r \in shorter : Len(r) = n - 1}, e \in S}

BuildInputs == SeqsUpTo(ChunkPool, MaxBuild)

\* chunk.get('similarity_score', 0)
ScoreOf(chunk) == IF chunk.has_score THEN chunk.similarity_score ELSE 0

\* ------------------------------------------------------------ VectorStore
NoIndex == [built |-> FALSE, ntotal |-> 0]

\* the filter without the strip()
HasContent_nostrip(chunk) == chunk.content # << >>

\* line 51-52: content.strip() is not empty
HasContent(chunk) == strip(chunk.content) # << >>

\* build_index: the new (index, chunks) pair
build_index(index0, chunks0, input) ==
  LET filtered_chunks == SelectSeq(input, HasContent)
  IN  IF filtered_chunks = << >>
        THEN [index |-> index0, chunks |-> chunks0]
        ELSE [index |-> [built |-> TRUE, ntotal |-> Len(filtered_chunks)],
              chunks |-> filtered_chunks]

\* save_index: the files of the one filename in use, written only when an
\* index exists
save_index(index0, chunks0, disk0) ==
  IF index0.built THEN <<[index |-> index0, chunks |-> chunks0]>> ELSE disk0

\* load_index: the (index, chunks) pair, replaced only when the files exist
load_index(index0, chunks0, disk0) ==
  IF disk0 # << >>
    THEN [index |-> disk0[1].index, chunks |-> disk0[1].chunks]
    ELSE [index |-> index0, chunks |-> chunks0]

\* score faiss reports for a result slot it could not fill
UNFILLED_SCORE == -1000
\* inner product of any vector with the zero query vector
ZERO_SCORE == 0

Scores == 1..MaxScore

\* what index.search(query_embedding, top_k) can return for an index of
\* ntotal vectors: top_k slots, the first min(top_k, ntotal) hold distinct
\* positions by non-increasing score, the others hold position -1
FaissResults(ntotal, top_k, embedded) ==
  LET m == IF ntotal < top_k THEN ntotal ELSE top_k
      orders == {o \in [1..m -> 0..(ntotal - 1)] :
                   \A a, b \in 1..m : a # b => o[a] # o[b]}
      scoreSeqs == IF embedded
                     THEN {sc \in [1..m -> Scores] :
                             \A a \in 1..m : a < m => sc[a] >= sc[a + 1]}
                     ELSE {[a \in 1..m |-> ZERO_SCORE]}
  IN  { [k \in 1..top_k |->
           IF k <= m THEN [idx |-> o[k], score |-> sc[k]]
                     ELSE [idx |-> -1, score |-> UNFILLED_SCORE]]
        : o \in orders, sc \in scoreSeqs }

\* self.chunks[idx] with Python's negative indexing
PyIndex(seq, idx) == IF idx >= 0 THEN seq[idx + 1] ELSE seq[Len(seq) + idx + 1]

\* the loop of search over zip(scores[0], indices[0])
RECURSIVE search_results(_, _)
search_results(store_chunks, slots) ==
  IF slots = << >> THEN << >>
  ELSE LET slot == Head(slots)
           rest == search_results(store_chunks, Tail(slots))
       IN  IF slot.idx < Len(store_chunks)
             THEN <<[PyIndex(store_chunks, slot.idx) EXCEPT
                       !.has_score = TRUE, !.similarity_score = slot.score]>> \o rest
             ELSE rest

\* ------------------------------------------------------ answer generators
\* f"{sub_query}": str() of a decoded JSON value
PyStrTok(tok) ==
  IF tok = "\"A\"" THEN <<"'A'">>
  ELSE IF tok = "\"B\"" THEN <<"'B'">>
  ELSE IF tok = "," THEN <<", ">>
  ELSE IF IsWs(tok) THEN << >>
  ELSE <<tok>>

PyStr(v) ==
  IF v.kind = "list"
    THEN Concat([k \in 1..Len(v.val) |-> PyStrTok(v.val[k])])
    ELSE v.val

\* GeminiClient.generate_answer
gemini_generate_answer(query, context_chunks, outcome) ==
  IF outcome.raises
    THEN <<"Error generating answer: ", "exc">>
    ELSE outcome.text

\* GPTClient.generate_answer (its error text starts with a cross-mark sign)
gpt_generate_answer(query, context_chunks, outcome) ==
  IF outcome.raises
    THEN <<"(x) Error generating answer: ", "exc">>
    ELSE strip(outcome.text)

\* a dispatch that sends every selector but "Gemini" to the GPT backend
Backend_gptdefault(selected) == IF selected = "Gemini" THEN "gemini" ELSE "gpt"

\* lines 131-134: the backend the selector picks
Backend(selected) == IF selected = "GPT" THEN "gpt" ELSE "gemini"

\* the model selection of query_complex
generate_answer(selected, query, context_chunks, outcome) ==
  IF Backend(selected) = "gpt"
    THEN gpt_generate_answer(query, context_chunks, outcome)
    ELSE gemini_generate_answer(query, context_chunks, outcome)

\* --------------------------------------------------------- rerank_chunks
\* dedup keeping the last chunk of each content instead of the first
RECURSIVE Dedup_lastwins(_, _)
Dedup_lastwins(all_chunks, seen_content) ==
  IF all_chunks = << >> THEN << >>
  ELSE LET chunk == Head(all_chunks)
           later == \E k \in 1..Len(Tail(all_chunks)) :
                      Tail(all_chunks)[k].content = chunk.content
       IN  IF later
             THEN Dedup_lastwins(Tail(all_chunks), seen_content)
             ELSE <<chunk>> \o Dedup_lastwins(Tail(all_chunks), seen_content)

RECURSIVE Dedup(_, _)
Dedup(all_chunks, seen_content) ==
  IF all_chunks = << >> THEN << >>
  ELSE LET chunk == Head(all_chunks)
       IN  IF chunk.content \in seen_content
             THEN Dedup(Tail(all_chunks), seen_content)
             ELSE <<chunk>> \o Dedup(Tail(all_chunks), seen_content \cup {chunk.content})

\* the position of an unstable sort: in front of the chunks of equal score
InsertPos_beforeties(sorted, c) ==
  LET notHigher == {k \in 1..Len(sorted) : ScoreOf(sorted[k]) <= ScoreOf(c)}
  IN  IF notHigher = {} THEN Len(sorted) + 1 ELSE SetMin(notHigher)

\* where sorted() puts c among the chunks placed so far: behind every chunk
\* whose score is not lower (Python's sort is stable, also with reverse=True)
InsertPos(sorted, c) ==
  LET lower == {k \in 1..Len(sorted) : ScoreOf(sorted[k]) < ScoreOf(c)}
  IN  IF lower = {} THEN Len(sorted) + 1 ELSE SetMin(lower)

\* the insertion of an ascending sort (reverse=True forgotten)
InsertDesc_ascending(sorted, c) ==
  LET higher == {k \in 1..Len(sorted) : ScoreOf(sorted[k]) > ScoreOf(c)}
      at == IF higher = {} THEN Len(sorted) + 1 ELSE SetMin(higher)
  IN  SubSeq(sorted, 1, at - 1) \o <<c>> \o SubSeq(sorted, at, Len(sorted))

\* insert c behind every element whose score is not lower (stable, descending)
InsertDesc(sorted, c) ==
  LET at == InsertPos(sorted, c)
  IN  SubSeq(sorted, 1, at - 1) \o <<c>> \o SubSeq(sorted, at, Len(sorted))

\* no sort at all: the chunks stay in first-seen order
SortedDesc_unsorted(todo, sorted) == sorted \o todo

\* sorted(unique_chunks, key=score, reverse=True)
RECURSIVE SortedDesc(_, _)
SortedDesc(todo, sorted) ==
  IF todo = << >> THEN sorted
  ELSE SortedDesc(Tail(todo), InsertDesc(sorted, Head(todo)))

\* the cap applied to the deduplicated chunks before they are sorted
rerank_chunks_capfirst(all_chunks) ==
  LET unique_chunks == Dedup(all_chunks, {})
      capped == SubSeq(unique_chunks, 1,
                  IF Len(unique_chunks) < RERANK_CAP THEN Len(unique_chunks) ELSE RERANK_CAP)
  IN  SortedDesc(capped, << >>)

rerank_chunks(all_chunks) ==
  LET unique_chunks == Dedup(all_chunks, {})
      reranked == SortedDesc(unique_chunks, << >>)
  IN  SubSeq(reranked, 1, IF Len(reranked) < RERANK_CAP THEN Len(reranked) ELSE RERANK_CAP)

\* -------------------------------------------------------- combine_answers
\* the fallback line without the answer
FallbackLine_noanswer(qa) == <<"* ">> \o PyStr(qa.question) \o <<"\n\n">>

\* one bullet of the fallback composite (the bullet sign is written "* ")
FallbackLine(qa) == <<"* ">> \o PyStr(qa.question) \o <<"\n">> \o qa.answer \o <<"\n\n">>

fallback_answer(original_query, sub_query_answers) ==
  <<"Based on the analysis of your question '">> \o original_query \o <<"':\n\n">>
    \o Concat([k \in 1..Len(sub_query_answers) |-> FallbackLine(sub_query_answers[k])])

combine_answers(original_query, sub_query_answers, outcome) ==
  IF outcome.raises
    THEN fallback_answer(original_query, sub_query_answers)
    ELSE strip(outcome.text)

\* ---------------------------------------------------------- query_complex
\* the fallback answer without the sub-question
NoInfoFor_unnamed(sub_query) == <<"No relevant information found for: ">>

NoInfoFor(sub_query) == <<"No relevant information found for: ">> \o PyStr(sub_query)

NO_INFO_MESSAGE ==
  <<"No relevant information found in the documents to answer your complex query.">>

\* the test of line 165 without its any(...) half
AnyChunks_recordsonly(sub_query_answers) == sub_query_answers # << >>

\* any(qa['chunks_count'] > 0 for qa in sub_query_answers)
AnyChunks(sub_query_answers) ==
  \E k \in 1..Len(sub_query_answers) : sub_query_answers[k].chunks_count > 0

\* lines 157-163: first image chunk per image_path, in first-seen order
RECURSIVE UniqueImages(_, _)
\* the dedup keyed by content instead of image_path
RECURSIVE UniqueImages_bycontent(_, _)
UniqueImages_bycontent(collected, seen_paths) ==
  IF collected = << >> THEN << >>
  ELSE LET chunk == Head(collected)
       IN  IF chunk.type = "image" /\ chunk.image_path # << >>
                /\ chunk.content \notin seen_paths
             THEN <<chunk>> \o UniqueImages_bycontent(Tail(collected),
                                  seen_paths \cup {chunk.content})
             ELSE UniqueImages_bycontent(Tail(collected), seen_paths)

UniqueImages(collected, seen_paths) ==
  IF collected = << >> THEN << >>
  ELSE LET chunk == Head(collected)
       IN  IF chunk.type = "image" /\ chunk.image_path # << >>
                /\ chunk.image_path \notin seen_paths
             THEN <<chunk>> \o UniqueImages(Tail(collected), seen_paths \cup {chunk.image_path})
             ELSE UniqueImages(Tail(collected), seen_paths)

\* ------------------------------------------------------------------ state
VARIABLES
  pc,                    \* position: "idle", inside query_complex, "done", "raised"
  index, chunks,         \* VectorStore.index, VectorStore.chunks
  question, selected_model,
  sub_queries, i, relevant_chunks,
  retrieved,             \* what search returned for each sub-question so far
  all_chunks_collected, sub_query_answers,
  reranked_chunks, relevant_image_chunks, final_answer,
  result,                \* << >> or <<the returned Query Result>>
  calls,                 \* the calls made by the current query_complex, in order
  decomp_outcome,        \* what the decomposition generator did
  embed_failed,          \* sub-question positions whose query embedding failed
  search_raised,         \* sub-question positions whose index.search raised
  gen_raised,            \* sub-question positions whose answer generator raised
  combine_call,          \* << >> or <<the combine_answers call: arguments, generator outcome, return>>
  gen_calls,             \* the answer-generator calls: backend, arguments, sub-question position
  disk,                  \* << >> or <<the saved index and chunks of "multimodal_rag">>
  store_call,            \* << >> or <<the last direct VectorStore call and its input>>
  all_chunks             \* PDFProcessor.all_chunks

vars == <<pc, index, chunks, question, selected_model, sub_queries, i,
          relevant_chunks, retrieved, all_chunks_collected, sub_query_answers,
          reranked_chunks, relevant_image_chunks, final_answer, result, calls,
          decomp_outcome, embed_failed, search_raised, gen_raised, combine_call, gen_calls,
          disk, store_call, all_chunks>>

storeVars == <<index, chunks>>
diskVars == <<disk, store_call>>
inputVars == <<question, selected_model, sub_queries, decomp_outcome>>
faultVars == <<embed_failed, search_raised, gen_raised>>

Call(op, pos) == [op |-> op, pos |-> pos]

\* ---------------------------------------------------------------- inputs
Questions == {<<"Q">>, <<"A">>}
MainQuestions == {<<"Q">>}
Models == {"GPT", "Gemini", "Claude"}

\* the atoms of the exhaustive responses (one string literal is enough there)
DecompAlphabet == RespAlphabet \ {"\"B\""}

\* every response text of at most MaxRespLen atoms, or an exception
AllDecompOutcomes ==
  {GenRaise} \cup {GenText(t) : t \in SeqsUpTo(DecompAlphabet, MaxRespLen)}

\* the responses the pipeline is run on
MainDecompOutcomes ==
  { GenRaise,
    GenText(<<"x">>),
    GenText(<<"[", "x", "]">>),
    GenText(<<"[", "]">>),
    GenText(<<"[", "1", "]">>),
    GenText(<<"x", "[", "\"A\"", "]">>),
    GenText(<<"[", "\"A\"", ",", "\"B\"", "]">>) }

AnswerOutcomes == {GenRaise, GenText(<<"ans">>)}

CombineOutcomes ==
  {GenRaise, GenText(<< >>), GenText(<<" ">>), GenText(<<" ", "final", "\n">>)}

Init ==
  /\ pc = "idle"
  /\ index = NoIndex
  /\ chunks = << >>
  /\ question = << >>
  /\ selected_model = "Gemini"
  /\ sub_queries = << >>
  /\ i = 0
  /\ relevant_chunks = << >>
  /\ retrieved = << >>
  /\ all_chunks_collected = << >>
  /\ sub_query_answers = << >>
  /\ reranked_chunks = << >>
  /\ relevant_image_chunks = << >>
  /\ final_answer = << >>
  /\ result = << >>
  /\ calls = << >>
  /\ decomp_outcome = GenRaise
  /\ embed_failed = {}
  /\ search_raised = {}
  /\ gen_raised = {}
  /\ combine_call = << >>
  /\ gen_calls = << >>
  /\ disk = << >>
  /\ store_call = << >>
  /\ all_chunks = << >>

\* the locals of query_complex before its first statement
ResetLocals ==
  /\ relevant_chunks' = << >>
  /\ retrieved' = << >>
  /\ all_chunks_collected' = << >>
  /\ sub_query_answers' = << >>
  /\ reranked_chunks' = << >>
  /\ relevant_image_chunks' = << >>
  /\ final_answer' = << >>
  /\ result' = << >>
  /\ embed_failed' = {}
  /\ search_raised' = {}
  /\ gen_raised' = {}
  /\ combine_call' = << >>
  /\ gen_calls' = << >>

\* between queries: process_pdf extends all_chunks by the chunks of further
\* PDFs (line 69), then PDFProcessor.build_vector_index: build_index on the
\* whole of all_chunks, then save_index("multimodal_rag")
BuildIndex ==
  /\ pc = "idle"
  /\ \E input \in BuildInputs :
       /\ Len(all_chunks) + Len(input) <= MaxBuild
       /\ all_chunks \o input # << >>
       /\ all_chunks' = all_chunks \o input
       /\ LET built == build_index(index, chunks, all_chunks \o input)
          IN  /\ index' = built.index
              /\ chunks' = built.chunks
              /\ disk' = save_index(built.index, built.chunks, disk)
  /\ UNCHANGED <<pc, store_call, inputVars, faultVars, i, relevant_chunks, retrieved,
                 all_chunks_collected, sub_query_answers, reranked_chunks,
                 relevant_image_chunks, final_answer, result, calls, combine_call, gen_calls>>

\* query -> query_complex, line 113: decompose_query
StartQuery(questions, models, outcomes) ==
  /\ pc = "idle"
  /\ \E q \in questions, m \in models, outcome \in outcomes :
       /\ question' = q
       /\ selected_model' = m
       /\ decomp_outcome' = outcome
       /\ sub_queries' = decompose_query(q, outcome)
  /\ calls' = <<Call("decompose_query", 0)>>
  /\ pc' = "search"
  /\ ResetLocals
  /\ i' = 1
  /\ UNCHANGED <<storeVars, diskVars, all_chunks>>

Decompose == StartQuery(MainQuestions, Models, MainDecompOutcomes)

\* line 120, VectorStore.search on a store whose index is None
SearchNoIndex ==
  /\ pc = "search"
  /\ i <= Len(sub_queries)
  /\ ~index.built
  /\ relevant_chunks' = << >>
  /\ retrieved' = Append(retrieved, << >>)
  /\ calls' = Append(calls, Call("search", i))
  /\ pc' = "answer"
  /\ UNCHANGED <<storeVars, diskVars, all_chunks, inputVars, faultVars, i, all_chunks_collected,
                 sub_query_answers, reranked_chunks, relevant_image_chunks,
                 final_answer, result, combine_call, gen_calls>>

\* search without the .copy(): the scores are written into the stored chunks
SearchIndex_nocopy ==
  /\ pc = "search"
  /\ i <= Len(sub_queries)
  /\ index.built
  /\ \E embedded \in BOOLEAN :
       /\ embed_failed' = IF embedded THEN embed_failed ELSE embed_failed \cup {i}
       /\ \E slots \in FaissResults(index.ntotal, TOP_K_RETRIEVAL, embedded) :
            /\ relevant_chunks' = search_results(chunks, slots)
            /\ retrieved' = Append(retrieved, search_results(chunks, slots))
            /\ chunks' = [p \in 1..Len(chunks) |->
                 IF \E a \in 1..Len(slots) : slots[a].idx = p - 1
                   THEN [chunks[p] EXCEPT !.has_score = TRUE,
                           !.similarity_score =
                             slots[CHOOSE a \in 1..Len(slots) : slots[a].idx = p - 1].score]
                   ELSE chunks[p]]
  /\ calls' = Append(calls, Call("search", i))
  /\ pc' = "answer"
  /\ UNCHANGED <<index, diskVars, all_chunks, inputVars, search_raised, gen_raised, i,
                 all_chunks_collected, sub_query_answers, reranked_chunks,
                 relevant_image_chunks, final_answer, result, combine_call, gen_calls>>

\* line 120, VectorStore.search: the query embedding (a zero vector when the
\* embedding call fails), index.search, and the loop building the results
SearchIndex ==
  /\ pc = "search"
  /\ i <= Len(sub_queries)
  /\ index.built
  /\ \E embedded \in BOOLEAN :
       /\ embed_failed' = IF embedded THEN embed_failed ELSE embed_failed \cup {i}
       /\ \E slots \in FaissResults(index.ntotal, TOP_K_RETRIEVAL, embedded) :
            /\ relevant_chunks' = search_results(chunks, slots)
            /\ retrieved' = Append(retrieved, search_results(chunks, slots))
  /\ calls' = Append(calls, Call("search", i))
  /\ pc' = "answer"
  /\ UNCHANGED <<storeVars, diskVars, all_chunks, inputVars, search_raised, gen_raised, i,
                 all_chunks_collected, sub_query_answers, reranked_chunks,
                 relevant_image_chunks, final_answer, result, combine_call, gen_calls>>

\* line 120, VectorStore.search line 81: index.search raises; neither search
\* nor query_complex nor query has a handler, so the exception leaves the call
SearchRaises ==
  /\ pc = "search"
  /\ i <= Len(sub_queries)
  /\ index.built
  /\ search_raised' = search_raised \cup {i}
  /\ calls' = Append(calls, Call("search", i))
  /\ pc' = "raised"
  /\ UNCHANGED <<storeVars, diskVars, all_chunks, inputVars, embed_failed, gen_raised, i, relevant_chunks,
                 retrieved, all_chunks_collected, sub_query_answers, reranked_chunks,
                 relevant_image_chunks, final_answer, result, combine_call, gen_calls>>

\* lines 122-143: chunks were found, the selected backend answers
GenerateAnswer ==
  /\ pc = "answer"
  /\ relevant_chunks # << >>
  /\ \E outcome \in AnswerOutcomes :
       /\ gen_raised' = IF outcome.raises THEN gen_raised \cup {i} ELSE gen_raised
       /\ sub_query_answers' = Append(sub_query_answers,
            [question |-> sub_queries[i],
             answer |-> generate_answer(selected_model, sub_queries[i], relevant_chunks, outcome),
             chunks_count |-> Len(relevant_chunks)])
  /\ all_chunks_collected' = all_chunks_collected \o relevant_chunks
  /\ calls' = Append(calls, Call(Backend(selected_model), i))
  /\ gen_calls' = Append(gen_calls,
       [backend |-> Backend(selected_model), query |-> sub_queries[i],
        context_chunks |-> relevant_chunks, pos |-> i])
  /\ i' = i + 1
  /\ pc' = "search"
  /\ UNCHANGED <<storeVars, diskVars, all_chunks, inputVars, embed_failed, search_raised, relevant_chunks, retrieved,
                 reranked_chunks, relevant_image_chunks, final_answer, result,
                 combine_call>>

\* the zero-chunk branch without its record
NoChunks_norecord ==
  /\ pc = "answer"
  /\ relevant_chunks = << >>
  /\ i' = i + 1
  /\ pc' = "search"
  /\ UNCHANGED <<storeVars, diskVars, all_chunks, inputVars, faultVars, relevant_chunks, retrieved, all_chunks_collected,
                 sub_query_answers, reranked_chunks, relevant_image_chunks, final_answer,
                 result, calls, combine_call, gen_calls>>

\* lines 144-150: no chunks, the fallback record
NoChunks ==
  /\ pc = "answer"
  /\ relevant_chunks = << >>
  /\ sub_query_answers' = Append(sub_query_answers,
       [question |-> sub_queries[i],
        answer |-> NoInfoFor(sub_queries[i]),
        chunks_count |-> 0])
  /\ i' = i + 1
  /\ pc' = "search"
  /\ UNCHANGED <<storeVars, diskVars, all_chunks, inputVars, faultVars, relevant_chunks, retrieved, all_chunks_collected,
                 reranked_chunks, relevant_image_chunks, final_answer, result,
                 calls, combine_call, gen_calls>>

\* lines 152-155: rerank_chunks is called only on a non-empty collection
reranked_of(collected) ==
  IF collected # << >> THEN rerank_chunks(collected) ELSE << >>

\* rerank and image aggregation entered one sub-question early
Rerank_early ==
  /\ pc = "search"
  /\ i >= Len(sub_queries)
  /\ reranked_chunks' = reranked_of(all_chunks_collected)
  /\ calls' = IF all_chunks_collected # << >>
                THEN Append(calls, Call("rerank_chunks", 0))
                ELSE calls
  /\ relevant_image_chunks' = UniqueImages(all_chunks_collected, {})
  /\ pc' = "combine"
  /\ UNCHANGED <<storeVars, diskVars, all_chunks, inputVars, faultVars, i, relevant_chunks, retrieved,
                 all_chunks_collected, sub_query_answers, final_answer, result,
                 combine_call, gen_calls>>

\* lines 152-163: rerank and image aggregation, after the loop
Rerank ==
  /\ pc = "search"
  /\ i > Len(sub_queries)
  /\ reranked_chunks' = reranked_of(all_chunks_collected)
  /\ calls' = IF all_chunks_collected # << >>
                THEN Append(calls, Call("rerank_chunks", 0))
                ELSE calls
  /\ relevant_image_chunks' = UniqueImages(all_chunks_collected, {})
  /\ pc' = "combine"
  /\ UNCHANGED <<storeVars, diskVars, all_chunks, inputVars, faultVars, i, relevant_chunks, retrieved,
                 all_chunks_collected, sub_query_answers, final_answer, result,
                 combine_call, gen_calls>>

\* lines 165-166: some sub-question had chunks, combine_answers is called
Combine ==
  /\ pc = "combine"
  /\ sub_query_answers # << >> /\ AnyChunks(sub_query_answers)
  /\ \E outcome \in CombineOutcomes :
       LET returned == combine_answers(question, sub_query_answers, outcome)
       IN  /\ final_answer' = returned
           /\ combine_call' = <<[original_query |-> question,
                                 sub_query_answers |-> sub_query_answers,
                                 outcome |-> outcome,
                                 returned |-> returned]>>
  /\ calls' = Append(Append(calls, Call("combine_answers", 0)), Call("combine_generate", 0))
  /\ pc' = "log"
  /\ UNCHANGED <<storeVars, diskVars, all_chunks, inputVars, faultVars, i, relevant_chunks, retrieved,
                 all_chunks_collected, sub_query_answers, reranked_chunks,
                 relevant_image_chunks, result, gen_calls>>

\* lines 167-168: no sub-question had chunks, the fixed message
SkipCombine ==
  /\ pc = "combine"
  /\ ~(sub_query_answers # << >> /\ AnyChunks(sub_query_answers))
  /\ final_answer' = NO_INFO_MESSAGE
  /\ pc' = "log"
  /\ UNCHANGED <<storeVars, diskVars, all_chunks, inputVars, faultVars, i, relevant_chunks, retrieved,
                 all_chunks_collected, sub_query_answers, reranked_chunks,
                 relevant_image_chunks, result, calls, combine_call, gen_calls>>

\* the result counting the chunks after the dedup instead of before it
LogAndReturn_dedupcount ==
  /\ pc = "log"
  /\ calls' = Append(calls, Call("log_query_flow", 0))
  /\ result' = <<[answer |-> final_answer,
                  method |-> "complex",
                  sub_queries |-> sub_queries,
                  sub_answers |-> sub_query_answers,
                  total_chunks_collected |-> Len(reranked_chunks),
                  reranked_chunks_used |-> Len(reranked_chunks),
                  relevant_image_chunks |-> relevant_image_chunks]>>
  /\ pc' = "done"
  /\ UNCHANGED <<storeVars, diskVars, all_chunks, inputVars, faultVars, i, relevant_chunks, retrieved,
                 all_chunks_collected, sub_query_answers, reranked_chunks,
                 relevant_image_chunks, final_answer, combine_call, gen_calls>>

\* lines 170-180: log_query_flow, then the Query Result is returned
LogAndReturn ==
  /\ pc = "log"
  /\ calls' = Append(calls, Call("log_query_flow", 0))
  /\ result' = <<[answer |-> final_answer,
                  method |-> "complex",
                  sub_queries |-> sub_queries,
                  sub_answers |-> sub_query_answers,
                  total_chunks_collected |-> Len(all_chunks_collected),
                  reranked_chunks_used |-> Len(reranked_chunks),
                  relevant_image_chunks |-> relevant_image_chunks]>>
  /\ pc' = "done"
  /\ UNCHANGED <<storeVars, diskVars, all_chunks, inputVars, faultVars, i, relevant_chunks, retrieved,
                 all_chunks_collected, sub_query_answers, reranked_chunks,
                 relevant_image_chunks, final_answer, combine_call, gen_calls>>

\* the call is over (line 109 returned the result, or the exception left
\* query): the locals of query_complex are gone
EndCall ==
  /\ pc \in {"done", "raised"}
  /\ pc' = "idle"
  /\ question' = << >>
  /\ selected_model' = "Gemini"
  /\ sub_queries' = << >>
  /\ decomp_outcome' = GenRaise
  /\ calls' = << >>
  /\ i' = 0
  /\ ResetLocals
  /\ UNCHANGED <<storeVars, diskVars, all_chunks>>

Next ==
  \/ BuildIndex
  \/ Decompose
  \/ SearchNoIndex
  \/ SearchIndex
  \/ SearchRaises
  \/ GenerateAnswer
  \/ NoChunks
  \/ Rerank
  \/ Combine
  \/ SkipCombine
  \/ LogAndReturn
  \/ EndCall

Spec == Init /\ [][Next]_vars

\* ------------------------------------------- rerank_chunks on its own
\* line 87 of search: the copy of a chunk with its score attached
Scored(chunk, score) == [chunk EXCEPT !.has_score = TRUE, !.similarity_score = score]

\* RERANK_CAP - 1 chunks of distinct content and distinct scores 11..17
FillerContents == <<"f1", "f2", "f3", "f4", "f5", "f6", "f7">>
Fillers ==
  [p \in 1..(RERANK_CAP - 1) |-> Scored(Chunk(<<FillerContents[p]>>, "text", << >>), 10 + p)]

\* chunks placed freely before and behind the fillers: repeated contents with
\* equal and with different scores, scores tying with a filler, a missing
\* score, image chunks sharing a path
FreePool ==
  { Chunk(<<"f1">>, "text", << >>),
    Scored(Chunk(<<"f1">>, "text", << >>), 12),
    Scored(Chunk(<<"e1">>, "text", << >>), 11),
    Scored(Chunk(<<"e1">>, "text", << >>), 12),
    Scored(Chunk(<<"e1">>, "image", <<"p1.png">>), 11),
    Scored(Chunk(<<"e2">>, "image", <<"p1.png">>), 12),
    Chunk(<<"e2">>, "image", <<"p2.png">>),
    Scored(Chunk(<<"e3">>, "text", << >>), 20) }

\* the free chunks alone (at = -1), or with the fillers behind the first at
WithFillers(f, at) ==
  LET k == IF at < Len(f) THEN at ELSE Len(f)
  IN  IF at = -1 THEN f
      ELSE SubSeq(f, 1, k) \o Fillers \o SubSeq(f, k + 1, Len(f))

RerankInputs ==
  {WithFillers(f, at) : f \in SeqsUpTo(FreePool, MaxFree), at \in -1..MaxFree}

\* lines 152-163 applied to a collection, outside any query
RerankAny ==
  /\ pc = "idle"
  /\ \E collected \in RerankInputs :
       /\ all_chunks_collected' = collected
       /\ reranked_chunks' = reranked_of(collected)
       /\ relevant_image_chunks' = UniqueImages(collected, {})
  /\ pc' = "reranked"
  /\ UNCHANGED <<storeVars, diskVars, all_chunks, inputVars, faultVars, i, relevant_chunks, retrieved,
                 sub_query_answers, final_answer, result, calls, combine_call, gen_calls>>

SpecRerank == Init /\ [][RerankAny]_vars

\* decompose_query alone, on every generator outcome within the bound
\* ---------------------------------------- the VectorStore operations alone
queryVars == <<pc, inputVars, faultVars, i, retrieved, all_chunks_collected,
               sub_query_answers, reranked_chunks, relevant_image_chunks,
               final_answer, result, calls, combine_call, gen_calls>>

StoreCall(op, input) == <<[op |-> op, input |-> input]>>

\* VectorStore.build_index on any chunk list, the empty one included
StoreBuild ==
  /\ pc = "idle"
  /\ \E input \in BuildInputs :
       /\ LET built == build_index(index, chunks, input)
          IN  /\ index' = built.index
              /\ chunks' = built.chunks
       /\ store_call' = StoreCall("build_index", input)
  /\ relevant_chunks' = << >>
  /\ UNCHANGED <<disk, queryVars, all_chunks>>

StoreSave ==
  /\ pc = "idle"
  /\ disk' = save_index(index, chunks, disk)
  /\ store_call' = StoreCall("save_index", << >>)
  /\ relevant_chunks' = << >>
  /\ UNCHANGED <<storeVars, queryVars, all_chunks>>

StoreLoad ==
  /\ pc = "idle"
  /\ LET loaded == load_index(index, chunks, disk)
     IN  /\ index' = loaded.index
         /\ chunks' = loaded.chunks
  /\ store_call' = StoreCall("load_index", << >>)
  /\ relevant_chunks' = << >>
  /\ UNCHANGED <<disk, queryVars, all_chunks>>

\* VectorStore.search: no index, or the results of index.search
StoreSearch ==
  /\ pc = "idle"
  /\ IF ~index.built
       THEN relevant_chunks' = << >>
       ELSE \E embedded \in BOOLEAN :
              \E slots \in FaissResults(index.ntotal, TOP_K_RETRIEVAL, embedded) :
                relevant_chunks' = search_results(chunks, slots)
  /\ store_call' = StoreCall("search", << >>)
  /\ UNCHANGED <<storeVars, disk, queryVars, all_chunks>>

NextStore ==
  \/ StoreBuild
  \/ StoreSave
  \/ StoreLoad
  \/ StoreSearch

SpecStore == Init /\ [][NextStore]_vars

DecomposeAny == StartQuery(Questions, {"Gemini"}, AllDecompOutcomes)

SpecDecompose == Init /\ [][DecomposeAny]_vars

TypeOK ==
  /\ pc \in {"idle", "search", "answer", "combine", "log", "done", "raised", "reranked"}
  /\ Len(result) <= 1
  /\ Len(combine_call) <= 1

\* ================================================================ claims
\* helpers of the claims, stated without the operators that model the code
Returned == pc = "done"

\* the positions of the generator calls made for sub-question k
GeneratorCalls(k) ==
  {c \in 1..Len(calls) : calls[c].op \in {"gpt", "gemini"} /\ calls[c].pos = k}

CallsOf(op) == {c \in 1..Len(calls) : calls[c].op = op}

FallbackText(sub_query) == <<"No relevant information found for: ">> \o PyStr(sub_query)

FixedMessage ==
  <<"No relevant information found in the documents to answer your complex query.">>

\* a grammar of JSON values over the response atoms, independent of the parser
RECURSIVE IsJsonValue(_), IsJsonElems(_)
IsJsonValue(s0) ==
  LET s == strip(s0)
  IN  \/ Len(s) = 1 /\ s[1] \in StrTokens
      \/ Len(s) >= 1 /\ \A k \in 1..Len(s) : s[k] \in NumTokens
      \/ /\ Len(s) >= 2
         /\ s[1] = "["
         /\ s[Len(s)] = "]"
         /\ LET inner == SubSeq(s, 2, Len(s) - 1)
            IN  strip(inner) = << >> \/ IsJsonElems(inner)

IsJsonElems(s) ==
  \/ IsJsonValue(s)
  \/ \E k \in 1..Len(s) :
       /\ s[k] = ","
       /\ IsJsonValue(SubSeq(s, 1, k - 1))
       /\ IsJsonElems(SubSeq(s, k + 1, Len(s)))

HasListLiteral(t) ==
  \E a, b \in 1..Len(t) : a < b /\ t[a] = "[" /\ t[b] = "]"

\* the substring from the first "[" to the last "]"
ListLiteral(t) ==
  LET a == CHOOSE k \in 1..Len(t) : t[k] = "[" /\ \A j \in 1..(k - 1) : t[j] # "["
      b == CHOOSE k \in 1..Len(t) : t[k] = "]" /\ \A j \in (k + 1)..Len(t) : t[j] # "]"
  IN  SubSeq(t, a, b)

ParseableList(outcome) ==
  /\ ~outcome.raises
  /\ HasListLiteral(outcome.text)
  /\ IsJsonValue(ListLiteral(outcome.text))

\* C1: no exception escapes a call of query / query_complex, whatever the
\* external calls do: the call never ends in the raised position.
C1_NoExceptionEscapes == pc # "raised"

\* C2: when index.search failed for sub-question k, the call still ends with a
\* record for every sub-question, and the record of k has chunks_count 0 and
\* the zero-chunk fallback answer.
C2_SearchFailureIsolated ==
  \A k \in search_raised :
    pc \in {"done", "raised"} =>
      /\ Len(sub_query_answers) = Len(sub_queries)
      /\ sub_query_answers[k].chunks_count = 0
      /\ sub_query_answers[k].answer = FallbackText(sub_queries[k])

\* C3: when the answer generator failed for sub-question k (which had chunks),
\* the answer recorded for k is the fallback text, not the error text.
C3_GeneratorFailureFallsBack ==
  \A k \in gen_raised :
    k <= Len(sub_query_answers) =>
      sub_query_answers[k].answer = FallbackText(sub_queries[k])

\* C4: when the answer generator failed for every sub-question of the call,
\* the returned final answer is the fixed message and combine_answers was not
\* invoked.
C4_AllFailedGivesFixedMessage ==
  (Returned /\ Len(sub_queries) > 0 /\ gen_raised = 1..Len(sub_queries)) =>
    /\ result[1].answer = FixedMessage
    /\ CallsOf("combine_answers") = {}

\* C5: for every question and every generator outcome that is not a parseable
\* list (exception, empty text, no list literal, a bracketed substring that
\* does not parse), decompose_query returns exactly [question].
C5_DecomposeFallback ==
  (pc = "search" /\ ~ParseableList(decomp_outcome)) =>
    sub_queries = <<[kind |-> "str", val |-> question]>>

C5_Witness ==
  /\ pc = "search"
  /\ ~decomp_outcome.raises
  /\ HasListLiteral(decomp_outcome.text)
  /\ ~IsJsonValue(ListLiteral(decomp_outcome.text))
  /\ sub_queries = <<[kind |-> "str", val |-> question]>>

\* C6: decompose_query returns a non-empty sequence of strings for every
\* generator outcome.
C6_NonEmptyStrings ==
  pc = "search" =>
    /\ Len(sub_queries) > 0
    /\ \A k \in 1..Len(sub_queries) : sub_queries[k].kind = "str"

\* C7: combine_answers is invoked exactly once, with the original question and
\* all the records, iff some record has chunks_count > 0, and then the final
\* answer is what it returned; otherwise it is never invoked and the final
\* answer is the fixed message.
C7_CombineIffChunks ==
  pc \in {"log", "done"} =>
    LET someChunks == \E k \in 1..Len(sub_query_answers) :
                         sub_query_answers[k].chunks_count > 0
    IN  /\ someChunks =>
             /\ Cardinality(CallsOf("combine_answers")) = 1
             /\ Len(combine_call) = 1
             /\ combine_call[1].original_query = question
             /\ combine_call[1].sub_query_answers = sub_query_answers
             /\ final_answer = combine_call[1].returned
        /\ ~someChunks =>
             /\ CallsOf("combine_answers") = {}
             /\ combine_call = << >>
             /\ final_answer = FixedMessage
        /\ Returned => result[1].answer = final_answer

C7_Witness ==
  /\ Returned
  /\ Len(combine_call) = 1
  /\ \E k \in 1..Len(sub_query_answers) : sub_query_answers[k].chunks_count > 0

\* C8: a sub-question whose retrieval returned nothing gets no generator call,
\* chunks_count 0 and the answer "No relevant information found for: " + it.
C8_ZeroChunkFallback ==
  \A k \in 1..Len(sub_query_answers) :
    retrieved[k] = << >> =>
      /\ GeneratorCalls(k) = {}
      /\ sub_query_answers[k].chunks_count = 0
      /\ sub_query_answers[k].answer = FallbackText(sub_queries[k])
      /\ sub_query_answers[k].question = sub_queries[k]

C8_Witness ==
  /\ Returned
  /\ Len(sub_query_answers) = 2
  /\ retrieved[2] = << >>

\* text holds, for each record in order, its question and then its answer
RECURSIVE HoldsInOrder(_, _, _)
HoldsInOrder(text, records, from) ==
  \/ records = << >>
  \/ LET q == PyStr(Head(records).question)
         a == Head(records).answer
     IN  \E p \in from..(Len(text) + 1), r \in from..(Len(text) + 1) :
           /\ OccursAt(text, q, p)
           /\ r >= p + Len(q)
           /\ OccursAt(text, a, r)
           /\ HoldsInOrder(text, Tail(records), r + Len(a))

\* C9: when the recombination generator raises, combine_answers returns a
\* non-empty string holding every record's question followed by its answer,
\* in input order, and the failed call was its only external call.
C9_CombineFallback ==
  (Len(combine_call) = 1 /\ combine_call[1].outcome.raises) =>
    /\ combine_call[1].returned # << >>
    /\ HoldsInOrder(combine_call[1].returned, combine_call[1].sub_query_answers, 1)
    /\ Cardinality(CallsOf("combine_generate")) = 1
    /\ \A c \in 1..Len(calls) :
         c > SetMax(CallsOf("combine_generate")) => calls[c].op = "log_query_flow"

C9_Witness ==
  /\ Returned
  /\ Len(combine_call) = 1
  /\ combine_call[1].outcome.raises
  /\ Len(combine_call[1].sub_query_answers) = 2
  /\ result[1].answer = combine_call[1].returned

\* C10: when the recombination generator returns an empty or whitespace-only
\* text, combine_answers returns the fallback composite, which is not empty.
C10_EmptyResponseFallsBack ==
  (Len(combine_call) = 1 /\ ~combine_call[1].outcome.raises
     /\ \A k \in 1..Len(combine_call[1].outcome.text) : IsWs(combine_call[1].outcome.text[k])) =>
    /\ combine_call[1].returned # << >>
    /\ HoldsInOrder(combine_call[1].returned, combine_call[1].sub_query_answers, 1)

\* ------------------------------------------------- claims on rerank_chunks
\* the score a chunk is ordered by: its similarity_score, 0 when it has none
ClaimScore(chunk) == IF chunk.has_score THEN chunk.similarity_score ELSE 0

Contents(collection) == {collection[k].content : k \in 1..Len(collection)}

\* the positions of the first chunk of each content
FirstPositions(collection) ==
  {p \in 1..Len(collection) :
     \A q \in 1..(p - 1) : collection[q].content # collection[p].content}

Cap(n) == IF n < 8 THEN n ELSE 8

\* C11: the output of rerank_chunks holds no two chunks of identical content,
\* and every output chunk is the first input chunk of its content (whatever
\* the scores of the later ones).
C11_DedupFirstWins ==
  pc = "reranked" =>
    /\ \A a, b \in 1..Len(reranked_chunks) :
         a # b => reranked_chunks[a].content # reranked_chunks[b].content
    /\ \A a \in 1..Len(reranked_chunks) :
         \E p \in FirstPositions(all_chunks_collected) :
           all_chunks_collected[p] = reranked_chunks[a]

C11_Witness ==
  /\ pc = "reranked"
  /\ \E p, q \in 1..Len(all_chunks_collected) :
       /\ p < q
       /\ p \in FirstPositions(all_chunks_collected)
       /\ all_chunks_collected[p].content = all_chunks_collected[q].content
       /\ ClaimScore(all_chunks_collected[p]) < ClaimScore(all_chunks_collected[q])
       /\ \E a \in 1..Len(reranked_chunks) : reranked_chunks[a] = all_chunks_collected[p]

\* C12: the output of rerank_chunks is ordered by non-increasing score, a
\* chunk without similarity_score counting as 0.
C12_SortedDescending ==
  pc = "reranked" =>
    \A a \in 1..(Len(reranked_chunks) - 1) :
      ClaimScore(reranked_chunks[a]) >= ClaimScore(reranked_chunks[a + 1])

C12_Witness ==
  /\ pc = "reranked"
  /\ Len(reranked_chunks) >= 3
  /\ ~reranked_chunks[Len(reranked_chunks)].has_score
  /\ ~all_chunks_collected[1].has_score
  /\ ClaimScore(reranked_chunks[1]) > ClaimScore(reranked_chunks[2])

\* C13: with d distinct contents in the input, rerank_chunks returns exactly
\* min(8, d) chunks, and no deduplicated chunk left out has a strictly higher
\* score than a chunk of the output.
C13_CapKeepsBest ==
  pc = "reranked" =>
    /\ Len(reranked_chunks) = Cap(Cardinality(Contents(all_chunks_collected)))
    /\ \A p \in FirstPositions(all_chunks_collected) :
         all_chunks_collected[p].content \notin Contents(reranked_chunks) =>
           \A a \in 1..Len(reranked_chunks) :
             ClaimScore(all_chunks_collected[p]) <= ClaimScore(reranked_chunks[a])

C13_Witness ==
  /\ pc = "reranked"
  /\ Cardinality(Contents(all_chunks_collected)) > 8
  /\ Len(reranked_chunks) = 8
  /\ all_chunks_collected[Len(all_chunks_collected)].content \in Contents(reranked_chunks)
  /\ all_chunks_collected[Len(all_chunks_collected)].content \notin
       {<<FillerContents[p]>> : p \in 1..Len(FillerContents)}

\* the (content, score) pairs of a chunk sequence
Pairs(collection) ==
  [k \in 1..Len(collection) |-> <<collection[k].content, ClaimScore(collection[k])>>]

\* s with the chunks at positions a and b exchanged
Swapped(s, a, b) ==
  [k \in 1..Len(s) |-> IF k = a THEN s[b] ELSE IF k = b THEN s[a] ELSE s[k]]

\* every permutation of a collection of at most 4 chunks, every exchange of
\* two chunks of a longer one
Rearrangements(s) ==
  IF Len(s) <= 4
    THEN {[k \in 1..Len(s) |-> s[f[k]]] :
            f \in {g \in [1..Len(s) -> 1..Len(s)] :
                     \A a, b \in 1..Len(s) : a # b => g[a] # g[b]}}
    ELSE {Swapped(s, a, b) : a, b \in 1..Len(s)}

\* equal contents carry equal scores, different contents different scores
Regular(collection) ==
  \A p, q \in 1..Len(collection) :
    (collection[p].content = collection[q].content)
      <=> (ClaimScore(collection[p]) = ClaimScore(collection[q]))

\* C14 as claimed: the (content, score) pairs rerank_chunks returns are the
\* same for every rearrangement of the accumulated collection.
C14_OrderIndependent ==
  pc = "reranked" =>
    \A other \in Rearrangements(all_chunks_collected) :
      Pairs(reranked_of(other)) = Pairs(reranked_chunks)

\* C14 amended: the (content, score) pairs rerank_chunks returns are the same
\* for every rearrangement of a collection in which chunks of equal content
\* carry equal scores and chunks of different content different scores.
C14_OrderIndependentWhenRegular ==
  (pc = "reranked" /\ Regular(all_chunks_collected)) =>
    \A other \in Rearrangements(all_chunks_collected) :
      Pairs(reranked_of(other)) = Pairs(reranked_chunks)

C14_Witness ==
  /\ pc = "reranked"
  /\ Regular(all_chunks_collected)
  /\ Cardinality(Contents(all_chunks_collected)) > 8
  /\ Len(all_chunks_collected) > Cardinality(Contents(all_chunks_collected))
  /\ Pairs(reranked_chunks) # Pairs(SubSeq(all_chunks_collected, 1, 8))

\* ------------------------------------------------ claims on query_complex
\* the positions of the first image chunk of each image_path
FirstImagePositions(collection) ==
  {p \in 1..Len(collection) :
     /\ collection[p].type = "image"
     /\ \A q \in 1..(p - 1) :
          ~(collection[q].type = "image"
            /\ collection[q].image_path = collection[p].image_path)}

\* the k-th smallest element of a set of positions
Kth(positions, k) ==
  CHOOSE p \in positions : Cardinality({q \in positions : q <= p}) = k

\* C16: relevant_image_chunks holds exactly one entry per distinct image_path
\* among the image chunks of the whole accumulated collection, the entry is
\* the first accumulated chunk of that path, the entries are in first-seen
\* order, and none of them is a non-image chunk.
C16_ImagesFirstPerPath ==
  pc = "reranked" =>
    LET firsts == FirstImagePositions(all_chunks_collected)
    IN  /\ Len(relevant_image_chunks) = Cardinality(firsts)
        /\ \A k \in 1..Len(relevant_image_chunks) :
             /\ relevant_image_chunks[k] = all_chunks_collected[Kth(firsts, k)]
             /\ relevant_image_chunks[k].type = "image"
        /\ \A a, b \in 1..Len(relevant_image_chunks) :
             a # b => relevant_image_chunks[a].image_path # relevant_image_chunks[b].image_path

\* two image chunks of one path and different content behind a text chunk,
\* a second path, and an image chunk that the cap of rerank_chunks cut off
C16_Witness ==
  /\ pc = "reranked"
  /\ Len(relevant_image_chunks) = 2
  /\ all_chunks_collected[1].type = "text"
  /\ \E p, q \in 1..Len(all_chunks_collected) :
       /\ p < q
       /\ all_chunks_collected[p].type = "image"
       /\ all_chunks_collected[q].type = "image"
       /\ all_chunks_collected[p].image_path = all_chunks_collected[q].image_path
       /\ all_chunks_collected[p].content # all_chunks_collected[q].content
  /\ \E k \in 1..2 : relevant_image_chunks[k].content \notin Contents(reranked_chunks)

\* the sum of chunks_count over a sequence of sub-question records
RECURSIVE SumCounts(_)
SumCounts(records) ==
  IF records = << >> THEN 0
  ELSE Head(records).chunks_count + SumCounts(Tail(records))

\* C15: in every Query Result sub_answers is as long as sub_queries,
\* sub_queries is the sequence decompose_query returned, in its order, and
\* the record at every position carries the sub-question of that position.
C15_RecordsFollowSubQueries ==
  Returned =>
    /\ Len(result[1].sub_answers) = Len(result[1].sub_queries)
    /\ result[1].sub_queries = decompose_query(question, decomp_outcome)
    /\ \A k \in 1..Len(result[1].sub_answers) :
         result[1].sub_answers[k].question = result[1].sub_queries[k]

C15_Witness ==
  /\ Returned
  /\ Len(result[1].sub_queries) = 2
  /\ result[1].sub_queries[1] # result[1].sub_queries[2]
  /\ result[1].sub_answers[2].chunks_count = 0

\* C17: in every Query Result total_chunks_collected is the sum of
\* chunks_count over the records, reranked_chunks_used is the length of
\* rerank_chunks of the accumulated collection, hence at most
\* min(8, total_chunks_collected), and 0 exactly when the total is 0.
C17_Counts ==
  Returned =>
    /\ result[1].total_chunks_collected = SumCounts(result[1].sub_answers)
    /\ result[1].reranked_chunks_used = Len(rerank_chunks(all_chunks_collected))
    /\ result[1].reranked_chunks_used <= Cap(result[1].total_chunks_collected)
    /\ (result[1].reranked_chunks_used = 0) <=> (result[1].total_chunks_collected = 0)

C17_Witness ==
  /\ Returned
  /\ Len(result[1].sub_answers) = 2
  /\ result[1].total_chunks_collected = 2 * TOP_K_RETRIEVAL
  /\ result[1].reranked_chunks_used = 2

\* the backend the selector stands for
Selected == IF selected_model = "GPT" THEN "gpt" ELSE "gemini"

\* C18: every sub-question whose retrieval returned chunks gets exactly one
\* answer-generator call, made with that sub-question and exactly the chunks
\* retrieved for it, on the GPT backend when the selector is "GPT" and on the
\* Gemini backend otherwise; the other backend is never invoked in the call.
C18_OneCallOnSelectedBackend ==
  pc # "idle" =>
    /\ \A c \in 1..Len(gen_calls) : gen_calls[c].backend = Selected
    /\ \A c \in 1..Len(calls) : calls[c].op \in {"gpt", "gemini"} => calls[c].op = Selected
    /\ \A k \in 1..Len(sub_query_answers) :
         retrieved[k] # << >> =>
           /\ Cardinality({c \in 1..Len(gen_calls) : gen_calls[c].pos = k}) = 1
           /\ Cardinality(GeneratorCalls(k)) = 1
           /\ \A c \in 1..Len(gen_calls) :
                gen_calls[c].pos = k =>
                  /\ gen_calls[c].query = sub_queries[k]
                  /\ gen_calls[c].context_chunks = retrieved[k]

C18_Witness ==
  /\ Returned
  /\ selected_model = "Claude"
  /\ Len(gen_calls) = 2
  /\ gen_calls[1].query # gen_calls[2].query
  /\ gen_calls[1].context_chunks # gen_calls[2].context_chunks
  /\ gen_calls[2].backend = "gemini"

Retrievals == {"search"}
Generations == {"gpt", "gemini"}

\* C20: within one query_complex call decompose_query is invoked exactly once
\* and before any retrieval; the retrieval and the generation for position i
\* are over before the retrieval for a later position starts; rerank_chunks
\* and combine_answers are invoked only when every sub-question has its
\* record; log_query_flow is invoked last, before the result is returned.
C20_CallOrder ==
  pc # "idle" =>
    /\ calls # << >>
    /\ CallsOf("decompose_query") = {1}
    /\ \A a \in CallsOf("search") :
         \A k \in 1..(calls[a].pos - 1) :
           /\ \E b \in 1..(a - 1) : calls[b].op \in Retrievals /\ calls[b].pos = k
           /\ retrieved[k] # << >> =>
                \E b \in 1..(a - 1) : calls[b].op \in Generations /\ calls[b].pos = k
           /\ \A b \in 1..Len(calls) :
                (calls[b].op \in Retrievals \cup Generations /\ calls[b].pos = k) => b < a
    /\ \A a \in CallsOf("rerank_chunks") \cup CallsOf("combine_answers") :
         /\ Len(sub_query_answers) = Len(sub_queries)
         /\ \A b \in 1..Len(calls) :
              calls[b].op \in Retrievals \cup Generations => b < a
    /\ \A a \in CallsOf("log_query_flow") :
         /\ a = Len(calls)
         /\ \A b \in CallsOf("rerank_chunks") \cup CallsOf("combine_answers") : b < a
    /\ result # << >> => CallsOf("log_query_flow") = {Len(calls)}

C20_Witness ==
  /\ Returned
  /\ Len(sub_queries) = 2
  /\ CallsOf("rerank_chunks") # {}
  /\ CallsOf("combine_answers") # {}
  /\ Cardinality(CallsOf("search")) = 2
  /\ Cardinality(CallsOf("gemini")) = 2

\* ------------------------------------------------- claims on VectorStore
NonEmptyContent(chunk) == strip(chunk.content) # << >>

\* the step is a build_index call whose input holds no chunk with content
BuildWithoutContent ==
  /\ store_call' # << >>
  /\ store_call'[1].op = "build_index"
  /\ \A k \in 1..Len(store_call'[1].input) : ~NonEmptyContent(store_call'[1].input[k])

\* C19: after any sequence of build_index, save_index, load_index and search
\* every chunk the store holds, every chunk on disk and every chunk search
\* returned has content that is non-empty after stripping whitespace, and a
\* build_index call whose input has no such chunk leaves index and chunks as
\* they were.
C19_StoreContentNonEmpty ==
  /\ [](/\ \A k \in 1..Len(chunks) : NonEmptyContent(chunks[k])
        /\ \A k \in 1..Len(relevant_chunks) : NonEmptyContent(relevant_chunks[k])
        /\ disk # << >> =>
             \A k \in 1..Len(disk[1].chunks) : NonEmptyContent(disk[1].chunks[k]))
  /\ [][BuildWithoutContent => UNCHANGED <<index, chunks>>]_vars

\* a build_index call of blank chunks only, on a store whose chunks differ
\* from the saved ones
C19_Witness ==
  /\ store_call # << >>
  /\ store_call[1].op = "build_index"
  /\ store_call[1].input # << >>
  /\ \A k \in 1..Len(store_call[1].input) : ~NonEmptyContent(store_call[1].input[k])
  /\ Len(chunks) = 2
  /\ disk # << >>
  /\ disk[1].chunks # chunks

\* ------------------------------------------ claims on ties, search, frame
\* the position of the first chunk of the given content
FirstPosOf(collection, content) ==
  SetMin({p \in 1..Len(collection) : collection[p].content = content})

\* C21: two chunks of the output of rerank_chunks that have equal score stand
\* in the order of their first appearance in the input collection.
C21_TiesInFirstSeenOrder ==
  pc = "reranked" =>
    \A a, b \in 1..Len(reranked_chunks) :
      (a < b /\ ClaimScore(reranked_chunks[a]) = ClaimScore(reranked_chunks[b])) =>
        FirstPosOf(all_chunks_collected, reranked_chunks[a].content)
          < FirstPosOf(all_chunks_collected, reranked_chunks[b].content)

\* two chunks of equal score that a chunk of a higher score, standing behind
\* both in the input, passes in the output
C21_Witness ==
  /\ pc = "reranked"
  /\ \E a, b \in 1..Len(reranked_chunks) :
       /\ 1 < a /\ a < b
       /\ ClaimScore(reranked_chunks[a]) = ClaimScore(reranked_chunks[b])
       /\ ClaimScore(reranked_chunks[1]) > ClaimScore(reranked_chunks[a])
       /\ FirstPosOf(all_chunks_collected, reranked_chunks[1].content)
            > FirstPosOf(all_chunks_collected, reranked_chunks[b].content)

\* a result chunk without the score search attached
Unscored(chunk) == [chunk EXCEPT !.has_score = FALSE, !.similarity_score = 0]

\* the results are copies of pairwise different positions of the store
CopiesOfDistinct(results, store_chunks) ==
  \E f \in [1..Len(results) -> 1..Len(store_chunks)] :
    /\ \A a, b \in 1..Len(results) : a # b => f[a] # f[b]
    /\ \A a \in 1..Len(results) : Unscored(results[a]) = store_chunks[f[a]]

\* C22 as claimed: on an index of N chunks search(query, top_k) returns at
\* most min(top_k, N) results, each a copy of a different indexed chunk; an
\* unfilled slot (position -1) yields no result.
C22_SearchBounded ==
  (store_call # << >> /\ store_call[1].op = "search") =>
    /\ Len(relevant_chunks) <=
         (IF Len(chunks) < TOP_K_RETRIEVAL THEN Len(chunks) ELSE TOP_K_RETRIEVAL)
    /\ \A k \in 1..Len(relevant_chunks) : relevant_chunks[k].similarity_score # UNFILLED_SCORE
    /\ CopiesOfDistinct(relevant_chunks, chunks)

\* the step belongs to a query_complex call
QueryStep == pc # "idle" \/ pc' # "idle"

\* C23: a query_complex call leaves the VectorStore index and chunk list and
\* PDFProcessor.all_chunks as they were, and no stored chunk ever carries a
\* similarity_score, so after any sequence of queries the store is as the
\* last build left it.
C23_QueryLeavesStore ==
  /\ [][QueryStep => UNCHANGED <<index, chunks, all_chunks>>]_vars
  /\ [](/\ \A k \in 1..Len(chunks) : ~chunks[k].has_score
        /\ \A k \in 1..Len(all_chunks) : ~all_chunks[k].has_score)

\* a returned call with two retrievals of scored chunks, on a store built
\* from an all_chunks that holds a blank chunk as well
C23_Witness ==
  /\ Returned
  /\ Len(retrieved) = 2
  /\ \A k \in 1..2 : retrieved[k] # << >> /\ retrieved[k][1].has_score
  /\ Len(chunks) = 1
  /\ Len(all_chunks) = 2

====
